---- MODULE Spec2Model ----
(***************************************************************************)
(* FocusPulse Elite: the live tracking engine (MasterpieceActivityTracker) *)
(* with its sampling-loop threads and the LiveSessionData objects they     *)
(* share with the caller and with a concurrent reader.                     *)
(*                                                                         *)
(* One caller thread (the GUI thread, the tests) runs start_tracking and   *)
(* stop_tracking one after the other, statement by statement; lines 54-57  *)
(* are one step, and so are lines 112-113.  Every successful               *)
(* start_tracking launches one more _tracking_loop thread; nothing ever    *)
(* joins one.  The loops run statement by statement; a statement that      *)
(* reads self.live_session and then writes the object, and an augmented    *)
(* assignment to a counter, are two steps (the read, then the write),      *)
(* since the interpreter may switch threads in between.  Statements that   *)
(* touch only the thread's locals are part of the step before them.        *)
(* Time is in whole seconds; scores are rounded to whole numbers.          *)
(*                                                                         *)
(* Beside the engine (Spec): a session that has already run for five       *)
(* minutes, so that its deques are full (SpecLongSession); one deque and   *)
(* everything appended to it (SpecDeque); the loop's score computation for *)
(* noise far out in the tails (SpecSynth); the sessions table of           *)
(* AdvancedDatabaseManager with init_database and get_sessions (SpecDb);   *)
(* export_enhanced_data over that table (SpecExport); the engine with      *)
(* sessions that last 10 and 11 seconds, either side of the threshold of   *)
(* stop_tracking (SpecThreshold); and the engine driven by the START and   *)
(* STOP buttons and the closing of the window (SpecGui).                   *)
(***************************************************************************)
EXTENDS Integers, Sequences, FiniteSets, TLC

\* ------------------------------------------------------------------ bounds
MaxSessions == 2
MaxTicks == 1
\* seconds a session has been running when the long-session runs begin
LongRun == 299
\* appends made to a deque on its own
MaxAppends == 6
\* the longest elapsed time, in seconds, the score computation is run for
MaxElapsed == 12
\* rows inserted into the sessions table besides the demo rows
MaxInserts == 2

\* ------------------------------------------------------------- constants
BufMaxLen == 300
MinDuration == 10
DefaultFocus == 85
DefaultProductivity == 88
FocusBase == 85
FocusFloor == 20
ProdBase == 88
ProdFloor == 30
ScoreCeiling == 100
BumpPeriod == 10
EventsMaxLen == 60
\* date(2025, 8, 24), the day of four demo rows, as a day number (toordinal)
DemoDay == 739487
\* date.min and date.max as day numbers
MinDay == 1
MaxDay == 3652059

\* Python's None, as a session reference and as a time
None == 0
NoTime == -1
SessionIds == 1..MaxSessions

\* seconds by which the wall clock is seen to advance between two steps
TickSteps == {1, 11}
\* np.random.normal(0, 5), np.random.normal(0, 4): one draw for each score
NoisePairs == {<<0, 0>>}
\* np.random.randint(5, 15), np.random.randint(2, 8)
TypingBumps == {5}
MouseBumps == {2}

VARIABLES
    now,                \* datetime.now(), in seconds
    nticks,             \* clock advances seen so far
    is_tracking,        \* tracker.is_tracking
    live_session,       \* tracker.live_session: a session id, or None
    session_start_time, \* tracker.session_start_time (None before a start)
    typing_events, mouse_events, app_switches,
    heap,               \* the LiveSessionData objects, by id
    nalloc,             \* LiveSessionData objects (and loop threads) created
    callerPc,           \* the caller's position in start_/stop_tracking
    avg_focus, avg_productivity, \* stop_tracking's locals, <<sum, count>>
    pc,                 \* each loop thread's position in _tracking_loop
    slept,              \* the thread's time.sleep(1) has lasted a second
    loc,                \* each loop thread's locals
    snapshot,           \* what get_live_session_data last returned
    log,                \* logger calls, counted by message
    summaries,          \* summaries stop_tracking computed, by session
    persisted,          \* summaries handed to db_manager
    stop_returned,      \* sessions whose stop_tracking has returned
    dq_maxlen,          \* a deque on its own: its maxlen,
    dq,                 \* its content,
    dq_appended,        \* and everything appended to it so far
    sampled,            \* one run of the loop's score computation on its own
    db_clock,           \* which of DbInstants datetime.now() is at
    sessions_table,     \* the rows of the sessions table
    sqlite_sequence,    \* the largest id AUTOINCREMENT has given in it
    db_last,            \* the last write to the table, and how many rows
                        \* the last init_database dropped
    answers,            \* what get_sessions gave, by days, for this table
                        \* content and this time
    exported,           \* what the last export_enhanced_data did, for
                        \* this table content and this time
    gui,                \* the handler the GUI thread is in, or "ready"
    btn_start_tracking, \* the state option of the START button
    btn_stop_tracking   \* the state option of the STOP button

engineVars == <<now, nticks, is_tracking, live_session, session_start_time,
                typing_events, mouse_events, app_switches, heap, nalloc,
                callerPc, avg_focus, avg_productivity, pc, slept, loc,
                snapshot, log, summaries, persisted, stop_returned>>
dequeVars == <<dq_maxlen, dq, dq_appended>>
\* what no step of the tracking engine touches
dbVars == <<db_clock, sessions_table, sqlite_sequence, db_last, answers,
            exported>>
guiVars == <<gui, btn_start_tracking, btn_stop_tracking>>
restVars == <<dequeVars, sampled, dbVars, guiVars>>
vars == <<engineVars, restVars>>

trackerVars == <<is_tracking, live_session, session_start_time,
                 typing_events, mouse_events, app_switches>>
clockVars == <<now, nticks>>
callerVars == <<callerPc, avg_focus, avg_productivity>>
loopVars == <<pc, slept, loc>>
outVars == <<log, summaries, persisted, stop_returned>>

\* --------------------------------------------------------------- helpers
Max(a, b) == IF a >= b THEN a ELSE b
Min(a, b) == IF a <= b THEN a ELSE b

\* a deque that, once full, discards what is appended
DequeAppendKeepsOldest(q, v, maxlen) ==
    IF Len(q) >= maxlen THEN q ELSE Append(q, v)

\* a deque that never discards
DequeAppendUnbounded(q, v, maxlen) == Append(q, v)

\* collections.deque(maxlen=n).append
DequeAppend(q, v, maxlen) ==
    IF Len(q) >= maxlen THEN Append(Tail(q), v) ELSE Append(q, v)

\* 10 * np.sin(e / 60) and 8 * np.cos(e / 45), rounded, for e = 0..50 seconds
SinTable == <<0, 0, 0, 0, 1, 1, 1, 1, 1, 1, 2, 2, 2, 2, 2, 2, 3, 3, 3, 3, 3,
              3, 4, 4, 4, 4, 4, 4, 4, 5, 5, 5, 5, 5, 5, 6, 6, 6, 6, 6, 6, 6,
              6, 7, 7, 7, 7, 7, 7, 7, 7>>
CosTable == <<8, 8, 8, 8, 8, 8, 8, 8, 8, 8, 8, 8, 8, 8, 8, 8, 7, 7, 7, 7, 7,
              7, 7, 7, 7, 7, 7, 7, 7, 6, 6, 6, 6, 6, 6, 6, 6, 5, 5, 5, 5, 5,
              5, 5, 4, 4, 4, 4, 4, 4, 4>>
SinTerm(e) == SinTable[Min(e, Len(SinTable) - 1) + 1]
CosTerm(e) == CosTable[Min(e, Len(CosTable) - 1) + 1]

\* the focus score without the max(20, ...)
FocusScoreNoFloor(elapsed, noise) ==
    Min(ScoreCeiling, FocusBase + SinTerm(elapsed) + noise)

\* max(20, min(100, base_focus + noise))
FocusScore(elapsed, noise) ==
    Max(FocusFloor, Min(ScoreCeiling, FocusBase + SinTerm(elapsed) + noise))
\* max(30, min(100, base_prod + prod_noise))
ProductivityScore(elapsed, noise) ==
    Max(ProdFloor, Min(ScoreCeiling, ProdBase + CosTerm(elapsed) + noise))

\* the sum of a sequence, by halves (as np.mean adds up, pairwise)
RECURSIVE SeqSum(_)
SeqSum(s) ==
    IF Len(s) = 0 THEN 0
    ELSE IF Len(s) = 1 THEN s[1]
    ELSE LET h == Len(s) \div 2 IN
         SeqSum(SubSeq(s, 1, h)) + SeqSum(SubSeq(s, h + 1, Len(s)))

\* np.sum in the place of np.mean
SumOrDefault(q, default) ==
    IF Len(q) > 0 THEN <<SeqSum(q), 1>> ELSE <<default, 1>>

\* np.mean(list(q)) if q else default, as <<sum, count>>
MeanOrDefault(q, default) ==
    IF Len(q) > 0 THEN <<SeqSum(q), Len(q)>> ELSE <<default, 1>>

\* LiveSessionData(start_time=..., current_app=..., current_window=...)
LiveSessionData(start) ==
    [start_time |-> start,
     current_app |-> "FocusPulse Elite",
     current_window |-> "Productivity Tracking Session",
     duration_seconds |-> 0,
     focus_scores |-> <<>>,
     productivity_scores |-> <<>>,
     activity_events |-> <<>>,
     timestamps |-> <<>>]

\* a slot of the heap no LiveSessionData has been created in yet
Unallocated == LiveSessionData(NoTime)

\* the locals of a thread between iterations; with them, whether
\* is_tracking has been true ever since the thread's last test of line 71
NoLocals == [elapsed |-> 0, current_time |-> 0, focus_score |-> 0,
             productivity_score |-> 0, ref |-> None, tmp |-> 0,
             in_tracking |-> FALSE]

\* is_tracking becomes false: no iteration under way is one of an engine
\* that stayed in Tracking
LeftTracking(locals) ==
    [k \in DOMAIN locals |-> [locals[k] EXCEPT !.in_tracking = FALSE]]

NoLog == [started |-> 0, completed |-> 0, stopped |-> 0, error |-> 0]

\* ------------------------------------------------- dates, text, the table
\* a datetime is <<day number, second of the day, microsecond>>
DateTime(day, hour, minute) == <<day, hour * 3600 + minute * 60, 0>>

\* a < b, as datetimes
DtLess(a, b) ==
    \/ a[1] < b[1]
    \/ a[1] = b[1] /\ a[2] < b[2]
    \/ a[1] = b[1] /\ a[2] = b[2] /\ a[3] < b[3]

\* datetime.isoformat(): "YYYY-MM-DDTHH:MM:SS", followed by ".ffffff" only
\* when the microsecond is not 0.  A text is the sequence of its zero-padded
\* fields: <<date, time of day>> or <<date, time of day, microsecond>>.
IsoFormat(dt) == IF dt[3] = 0 THEN <<dt[1], dt[2]>> ELSE dt

\* datetime.fromisoformat() of such a text
FromIsoFormat(text) ==
    IF Len(text) = 2 THEN <<text[1], text[2], 0>> ELSE text

\* a < b as SQLite compares two TEXT values: character by character, a
\* proper prefix being the smaller
RECURSIVE TextLess(_, _)
TextLess(a, b) ==
    IF b = <<>> THEN FALSE
    ELSE IF a = <<>> THEN TRUE
    ELSE IF Head(a) # Head(b) THEN Head(a) < Head(b)
    ELSE TextLess(Tail(a), Tail(b))

\* dt - timedelta(days=days), and whether it is a date Python can hold
\* (OverflowError otherwise)
MinusDays(dt, days) == <<dt[1] - days, dt[2], dt[3]>>
Representable(dt) == MinDay <= dt[1] /\ dt[1] <= MaxDay

\* the moments datetime.now() is seen at by the database code, in turn:
\* 2025-08-24 18:00:00.000005, 2025-08-25 10:00:00, and fourteen months on
DbInstants == << <<DemoDay, 18 * 3600, 5>>,
                 DateTime(DemoDay + 1, 10, 0),
                 <<DemoDay + 435, 12 * 3600 + 1, 7>> >>

\* a row of the sessions table (the columns the properties refer to)
Row(id, dt, application, category) ==
    [id |-> id, timestamp |-> IsoFormat(dt), application |-> application,
     category |-> category]

\* _insert_masterpiece_data: the demo rows, ids from AUTOINCREMENT
DemoSessions ==
    << Row(1, DateTime(DemoDay, 9, 0), "vscode.exe", "Development"),
       Row(2, DateTime(DemoDay, 11, 15), "figma.exe", "Design"),
       Row(3, DateTime(DemoDay, 14, 30), "chrome.exe", "Research"),
       Row(4, DateTime(DemoDay, 16, 45), "notion.so", "Productivity"),
       Row(5, DateTime(DemoDay - 1, 10, 0), "photoshop.exe", "Design") >>

\* the values of days get_sessions is called with
DaysArgs == {-1, 0, 1, 2, 7, 100, 4000000}

\* the elements of a sequence
Range(seq) == {seq[i] : i \in DOMAIN seq}

\* the tuples of demo_sessions, before the table numbers them
DemoData ==
    [i \in DOMAIN DemoSessions |->
        [timestamp |-> DemoSessions[i].timestamp,
         application |-> DemoSessions[i].application,
         category |-> DemoSessions[i].category]]

\* a database file without a sessions table: no rows, and no entry for
\* the table in sqlite_sequence
NoTable == [rows |-> <<>>, sequence |-> 0]

\* init_database without the DROP: CREATE TABLE IF NOT EXISTS alone
KeepTable(db) == db

\* a DROP that leaves the table's AUTOINCREMENT counter behind
DropTableKeepSequence(db) == [rows |-> <<>>, sequence |-> db.sequence]

\* DROP TABLE IF EXISTS sessions: the rows go, and with them the table's
\* entry in sqlite_sequence
DropTable(db) == NoTable

\* INSERT INTO sessions (...) VALUES (...): id INTEGER PRIMARY KEY
\* AUTOINCREMENT gives the row one more than the largest id given so far
InsertRow(db, values) ==
    [rows |-> Append(db.rows,
                  [id |-> db.sequence + 1,
                   timestamp |-> values.timestamp,
                   application |-> values.application,
                   category |-> values.category]),
     sequence |-> db.sequence + 1]

\* cursor.executemany: one INSERT per tuple, in order
RECURSIVE InsertRows(_, _)
InsertRows(db, data) ==
    IF data = <<>> THEN db
    ELSE InsertRows(InsertRow(db, Head(data)), Tail(data))

\* init_database on a database file: drop, create, insert the demo rows
InitDatabaseOn(db) == InsertRows(DropTable(db), DemoData)

\* get_sessions has not been called since the table or the time changed
NotAsked == [asked |-> FALSE, fetched |-> <<>>, returned |-> <<>>,
             failed |-> FALSE, raised |-> FALSE]

\* export_enhanced_data has not been called since the table or the time
\* changed
NotExported ==
    [called |-> FALSE, days |-> 0, step_failed |-> FALSE,
     filename |-> <<>>, rows |-> <<>>, raised |-> FALSE]

\* AdvancedDatabaseManager.__init__ -> init_database: DROP TABLE IF EXISTS
\* sessions, CREATE TABLE sessions, the demo rows
InitDatabase ==
    /\ sessions_table = InitDatabaseOn(NoTable).rows
    /\ sqlite_sequence = InitDatabaseOn(NoTable).sequence
    /\ db_last = [op |-> "init", dropped |-> 0]
    /\ answers = [d \in DaysArgs |-> NotAsked]
    /\ exported = NotExported

\* UltimateMasterpieceGUI.create_header: the START button with tk's default
\* state, the STOP button with state='disabled'; no handler is running
GuiInit ==
    /\ gui = "ready"
    /\ btn_start_tracking = "normal"
    /\ btn_stop_tracking = "disabled"

\* ------------------------------------------------------------------ Init
\* no deque is under study
DequeIdle ==
    /\ dq_maxlen = 0
    /\ dq = <<>>
    /\ dq_appended = <<>>

\* MasterpieceActivityTracker.__init__: the tracker's own fields
TrackerInit ==
    /\ now = 0
    /\ nticks = 0
    /\ is_tracking = FALSE
    /\ live_session = None
    /\ session_start_time = NoTime
    /\ typing_events = 0
    /\ mouse_events = 0
    /\ app_switches = 0
    /\ heap = [s \in SessionIds |-> Unallocated]
    /\ nalloc = 0
    /\ callerPc = "idle"
    /\ avg_focus = <<0, 1>>
    /\ avg_productivity = <<0, 1>>
    /\ pc = [k \in SessionIds |-> "none"]
    /\ slept = [k \in SessionIds |-> FALSE]
    /\ loc = [k \in SessionIds |-> NoLocals]
    /\ snapshot = None
    /\ log = NoLog
    /\ summaries = [s \in SessionIds |-> <<>>]
    /\ persisted = <<>>
    /\ stop_returned = {}

\* the score computation has not been run on its own
NoSample == [elapsed |-> NoTime, noise |-> <<0, 0>>,
             focus_score |-> DefaultFocus,
             productivity_score |-> DefaultProductivity]

\* the state after construction
Init ==
    /\ TrackerInit
    /\ DequeIdle
    /\ sampled = NoSample
    /\ db_clock = 1
    /\ InitDatabase
    /\ GuiInit

\* ------------------------------------------------ the caller: start_tracking
\* start_tracking without the guard of line 51
StartCheckUnguarded ==
    /\ callerPc = "idle"
    /\ nalloc < MaxSessions
    /\ callerPc' = "S53"
    /\ UNCHANGED <<trackerVars, clockVars, heap, nalloc, avg_focus,
                   avg_productivity, loopVars, snapshot, outVars, restVars>>

\* start_tracking() is called; line 51-52: if self.is_tracking: return
\* (a call that would create more than MaxSessions sessions is outside the
\* bound)
StartCheck ==
    /\ callerPc = "idle"
    /\ is_tracking \/ nalloc < MaxSessions
    /\ callerPc' = IF is_tracking THEN "S52" ELSE "S53"
    /\ UNCHANGED <<trackerVars, clockVars, heap, nalloc, avg_focus,
                   avg_productivity, loopVars, snapshot, outVars, restVars>>

\* the return of line 52
StartReturnNoop ==
    /\ callerPc = "S52"
    /\ callerPc' = "idle"
    /\ UNCHANGED <<trackerVars, clockVars, heap, nalloc, avg_focus,
                   avg_productivity, loopVars, snapshot, outVars, restVars>>

\* line 53: self.is_tracking = True
StartSetTracking ==
    /\ callerPc = "S53"
    /\ is_tracking' = TRUE
    /\ callerPc' = "S54"
    /\ UNCHANGED <<live_session, session_start_time, typing_events,
                   mouse_events, app_switches, clockVars, heap, nalloc,
                   avg_focus, avg_productivity, loopVars, snapshot, outVars,
                   restVars>>

\* lines 54-57: self.session_start_time = datetime.now(); self.typing_events
\* = 0; self.mouse_events = 0; self.app_switches = 0
StartResetCounters ==
    /\ callerPc = "S54"
    /\ session_start_time' = now
    /\ typing_events' = 0
    /\ mouse_events' = 0
    /\ app_switches' = 0
    /\ callerPc' = "S59"
    /\ UNCHANGED <<is_tracking, live_session, clockVars, heap, nalloc,
                   avg_focus, avg_productivity, loopVars, snapshot, outVars,
                   restVars>>

\* start_tracking creating the session without storing it in self.live_session
StartNewSessionUnpublished ==
    /\ callerPc = "S59"
    /\ nalloc < MaxSessions
    /\ nalloc' = nalloc + 1
    /\ heap' = [heap EXCEPT ![nalloc + 1] = LiveSessionData(session_start_time)]
    /\ callerPc' = "S65"
    /\ UNCHANGED <<trackerVars, clockVars, avg_focus, avg_productivity,
                   loopVars, snapshot, outVars, restVars>>

\* lines 59-63: self.live_session = LiveSessionData(start_time=...)
StartNewSession ==
    /\ callerPc = "S59"
    /\ nalloc < MaxSessions
    /\ nalloc' = nalloc + 1
    /\ heap' = [heap EXCEPT ![nalloc + 1] = LiveSessionData(session_start_time)]
    /\ live_session' = nalloc + 1
    /\ callerPc' = "S65"
    /\ UNCHANGED <<is_tracking, session_start_time, typing_events,
                   mouse_events, app_switches, clockVars, avg_focus,
                   avg_productivity, loopVars, snapshot, outVars, restVars>>

\* lines 65-67: log, then threading.Thread(target=self._tracking_loop).start()
\* and return; the thread of the n-th session created is thread n
StartLaunchLoop ==
    /\ callerPc = "S65"
    /\ log' = [log EXCEPT !.started = @ + 1]
    /\ pc' = [pc EXCEPT ![nalloc] = "L71"]
    /\ callerPc' = "idle"
    /\ UNCHANGED <<trackerVars, clockVars, heap, nalloc, avg_focus,
                   avg_productivity, slept, loc, snapshot, summaries,
                   persisted, stop_returned, restVars>>

\* ------------------------------------------------- the caller: stop_tracking
\* stop_tracking without the guard of line 101
StopCheckUnguarded ==
    /\ callerPc = "idle"
    /\ callerPc' = "P103"
    /\ UNCHANGED <<trackerVars, clockVars, heap, nalloc, avg_focus,
                   avg_productivity, loopVars, snapshot, outVars, restVars>>

\* stop_tracking() is called; line 101-102: if not self.is_tracking: return
StopCheck ==
    /\ callerPc = "idle"
    /\ callerPc' = IF is_tracking THEN "P103" ELSE "P102"
    /\ UNCHANGED <<trackerVars, clockVars, heap, nalloc, avg_focus,
                   avg_productivity, loopVars, snapshot, outVars, restVars>>

\* the return of line 102
StopReturnNoop ==
    /\ callerPc = "P102"
    /\ callerPc' = "idle"
    /\ UNCHANGED <<trackerVars, clockVars, heap, nalloc, avg_focus,
                   avg_productivity, loopVars, snapshot, outVars, restVars>>

\* stop_tracking returning right after line 103, the session still held
StopClearTrackingAndReturn ==
    /\ callerPc = "P103"
    /\ is_tracking' = FALSE
    /\ loc' = LeftTracking(loc)
    /\ callerPc' = "idle"
    /\ UNCHANGED <<live_session, session_start_time, typing_events,
                   mouse_events, app_switches, clockVars, heap, nalloc,
                   avg_focus, avg_productivity, pc, slept, snapshot, outVars,
                   restVars>>

\* line 103: self.is_tracking = False
StopClearTracking ==
    /\ callerPc = "P103"
    /\ is_tracking' = FALSE
    /\ loc' = LeftTracking(loc)
    /\ callerPc' = "P106"
    /\ UNCHANGED <<live_session, session_start_time, typing_events,
                   mouse_events, app_switches, clockVars, heap, nalloc,
                   avg_focus, avg_productivity, pc, slept, snapshot, outVars,
                   restVars>>

\* line 106 with >= 10 in place of > 10
StopTestDurationAtLeast ==
    /\ callerPc = "P106"
    /\ callerPc' = IF /\ live_session # None
                      /\ heap[live_session].duration_seconds >= MinDuration
                   THEN "P107" ELSE "P112"
    /\ UNCHANGED <<trackerVars, clockVars, heap, nalloc, avg_focus,
                   avg_productivity, loopVars, snapshot, outVars, restVars>>

\* line 106: if self.live_session and self.live_session.duration_seconds > 10
StopTestDuration ==
    /\ callerPc = "P106"
    /\ callerPc' = IF /\ live_session # None
                      /\ heap[live_session].duration_seconds > MinDuration
                   THEN "P107" ELSE "P112"
    /\ UNCHANGED <<trackerVars, clockVars, heap, nalloc, avg_focus,
                   avg_productivity, loopVars, snapshot, outVars, restVars>>

\* line 107: avg_focus = np.mean(list(focus_scores)) if focus_scores else 85
\* (were self.live_session None here and in the next two statements, the
\* AttributeError would leave stop_tracking)
StopAvgFocus ==
    /\ callerPc = "P107"
    /\ IF live_session = None
       THEN callerPc' = "idle" /\ avg_focus' = avg_focus
       ELSE /\ avg_focus' =
                   MeanOrDefault(heap[live_session].focus_scores, DefaultFocus)
            /\ callerPc' = "P108"
    /\ UNCHANGED <<trackerVars, clockVars, heap, nalloc, avg_productivity,
                   loopVars, snapshot, outVars, restVars>>

\* line 108 averaging focus_scores once more
StopAvgProductivityOfFocus ==
    /\ callerPc = "P108"
    /\ IF live_session = None
       THEN callerPc' = "idle" /\ avg_productivity' = avg_productivity
       ELSE /\ avg_productivity' =
                   MeanOrDefault(heap[live_session].focus_scores,
                                 DefaultProductivity)
            /\ callerPc' = "P109"
    /\ UNCHANGED <<trackerVars, clockVars, heap, nalloc, avg_focus,
                   loopVars, snapshot, outVars, restVars>>

\* line 108: avg_productivity = np.mean(list(productivity_scores)) if ... else 88
StopAvgProductivity ==
    /\ callerPc = "P108"
    /\ IF live_session = None
       THEN callerPc' = "idle" /\ avg_productivity' = avg_productivity
       ELSE /\ avg_productivity' =
                   MeanOrDefault(heap[live_session].productivity_scores,
                                 DefaultProductivity)
            /\ callerPc' = "P109"
    /\ UNCHANGED <<trackerVars, clockVars, heap, nalloc, avg_focus,
                   loopVars, snapshot, outVars, restVars>>

\* lines 109-111: log "Session completed: {duration}s, Focus: {avg_focus}";
\* the hand-over to db_manager is a comment, nothing is persisted
StopLogSummary ==
    /\ callerPc = "P109"
    /\ IF live_session = None
       THEN callerPc' = "idle" /\ UNCHANGED <<log, summaries>>
       ELSE /\ log' = [log EXCEPT !.completed = @ + 1]
            /\ summaries' = [summaries EXCEPT ![live_session] = Append(@,
                   [duration_seconds |-> heap[live_session].duration_seconds,
                    avg_focus |-> avg_focus,
                    avg_productivity |-> avg_productivity])]
            /\ callerPc' = "P112"
    /\ UNCHANGED <<trackerVars, clockVars, heap, nalloc, avg_focus,
                   avg_productivity, loopVars, snapshot, persisted,
                   stop_returned, restVars>>

\* stop_tracking without line 112: the session is kept
StopKeepSession ==
    /\ callerPc = "P112"
    /\ log' = [log EXCEPT !.stopped = @ + 1]
    /\ stop_returned' = 1..nalloc
    /\ avg_focus' = <<0, 1>>
    /\ avg_productivity' = <<0, 1>>
    /\ callerPc' = "idle"
    /\ UNCHANGED <<trackerVars, clockVars, heap, nalloc, loopVars, snapshot,
                   summaries, persisted, restVars>>

\* stop_tracking emptying the session's buffers before it releases it
StopReleaseAndClear ==
    /\ callerPc = "P112"
    /\ heap' = [heap EXCEPT ![live_session] =
                   LiveSessionData(heap[live_session].start_time)]
    /\ live_session' = None
    /\ log' = [log EXCEPT !.stopped = @ + 1]
    /\ stop_returned' = 1..nalloc
    /\ avg_focus' = <<0, 1>>
    /\ avg_productivity' = <<0, 1>>
    /\ callerPc' = "idle"
    /\ UNCHANGED <<is_tracking, session_start_time, typing_events,
                   mouse_events, app_switches, clockVars, nalloc,
                   loopVars, snapshot, summaries, persisted, restVars>>

\* lines 112-113: self.live_session = None; log "Stopped tracking session";
\* return.  The sessions created so far are the ones this stop and the
\* earlier ones have ended.
StopReleaseSession ==
    /\ callerPc = "P112"
    /\ live_session' = None
    /\ log' = [log EXCEPT !.stopped = @ + 1]
    /\ stop_returned' = 1..nalloc
    /\ avg_focus' = <<0, 1>>
    /\ avg_productivity' = <<0, 1>>
    /\ callerPc' = "idle"
    /\ UNCHANGED <<is_tracking, session_start_time, typing_events,
                   mouse_events, app_switches, clockVars, heap, nalloc,
                   loopVars, snapshot, summaries, persisted, restVars>>

\* ------------------------------------------------ a thread: _tracking_loop
\* what no statement of the loop's try block writes
LoopFrame ==
    UNCHANGED <<clockVars, nalloc, callerVars, snapshot, summaries,
                persisted, stop_returned, is_tracking, live_session,
                session_start_time, app_switches, restVars>>

\* thread k goes on to the statement at label
Goto(k, label) ==
    /\ pc' = [pc EXCEPT ![k] = label]
    /\ slept' = slept

\* line 94: thread k enters time.sleep(1); the iteration's locals are dead
EnterSleep(k) ==
    /\ pc' = [pc EXCEPT ![k] = "asleep"]
    /\ slept' = [slept EXCEPT ![k] = FALSE]
    /\ loc' = [loc EXCEPT ![k] = NoLocals]

\* an exception handler that also leaves the Tracking state
LoopExceptStopsTracking(k) ==
    /\ log' = [log EXCEPT !.error = @ + 1]
    /\ pc' = [pc EXCEPT ![k] = "done"]
    /\ loc' = [LeftTracking(loc) EXCEPT ![k] = NoLocals]
    /\ is_tracking' = FALSE
    /\ UNCHANGED <<live_session, session_start_time, typing_events,
                   mouse_events, app_switches, clockVars, heap, nalloc,
                   callerVars, slept, snapshot, summaries, persisted,
                   stop_returned, restVars>>

\* lines 95-97: an exception in the try block is caught, logged, and the
\* loop is left by break; nothing reaches the thread's starter
LoopExcept(k) ==
    /\ log' = [log EXCEPT !.error = @ + 1]
    /\ pc' = [pc EXCEPT ![k] = "done"]
    /\ loc' = [loc EXCEPT ![k] = NoLocals]
    /\ UNCHANGED <<trackerVars, clockVars, heap, nalloc, callerVars, slept,
                   snapshot, summaries, persisted, stop_returned, restVars>>

\* line 71: while self.is_tracking (the thread ends when it is false)
LoopCheck(k) ==
    /\ pc[k] = "L71"
    /\ Goto(k, IF is_tracking THEN "L73" ELSE "done")
    /\ loc' = [loc EXCEPT ![k].in_tracking = is_tracking]
    /\ LoopFrame
    /\ UNCHANGED <<heap, typing_events, mouse_events, log>>

\* line 73: if self.live_session (else straight to the sleep of line 94)
LoopTestSession(k) ==
    /\ pc[k] = "L73"
    /\ IF live_session # None
       THEN Goto(k, "L74") /\ loc' = loc
       ELSE EnterSleep(k)
    /\ LoopFrame
    /\ UNCHANGED <<heap, typing_events, mouse_events, log>>

\* lines 74-84: current_time = datetime.now(); elapsed = (current_time -
\* self.live_session.start_time).total_seconds(); the two scores from elapsed
\* and one noise draw each.  self.live_session may be None by now.
LoopSample(k) ==
    /\ pc[k] = "L74"
    /\ IF live_session = None
       THEN LoopExcept(k)
       ELSE /\ \E noise \in NoisePairs :
                 LET elapsed == now - heap[live_session].start_time IN
                 loc' = [loc EXCEPT ![k] =
                     [@ EXCEPT !.current_time = now,
                               !.elapsed = elapsed,
                               !.focus_score = FocusScore(elapsed, noise[1]),
                               !.productivity_score =
                                   ProductivityScore(elapsed, noise[2])]]
            /\ Goto(k, "L86")
            /\ LoopFrame
            /\ UNCHANGED <<heap, typing_events, mouse_events, log>>

\* the self.live_session of lines 86-89 is read before the object is written
LoopLoadSession(k, at, next) ==
    /\ pc[k] = at
    /\ IF live_session = None
       THEN LoopExcept(k)
       ELSE /\ loc' = [loc EXCEPT ![k].ref = live_session]
            /\ Goto(k, next)
            /\ LoopFrame
            /\ UNCHANGED <<heap, typing_events, mouse_events, log>>

\* line 86: self.live_session.duration_seconds = int(elapsed)
LoopLoadForDuration(k) == LoopLoadSession(k, "L86", "L86w")

\* line 86 moving the session's start_time as well
LoopSetDurationRebasing(k) ==
    /\ pc[k] = "L86w"
    /\ heap' = [heap EXCEPT ![loc[k].ref].duration_seconds = loc[k].elapsed,
                            ![loc[k].ref].start_time = loc[k].current_time]
    /\ loc' = [loc EXCEPT ![k].ref = None]
    /\ Goto(k, "L87")
    /\ LoopFrame
    /\ UNCHANGED <<typing_events, mouse_events, log>>

LoopSetDuration(k) ==
    /\ pc[k] = "L86w"
    /\ heap' = [heap EXCEPT ![loc[k].ref].duration_seconds = loc[k].elapsed]
    /\ loc' = [loc EXCEPT ![k].ref = None]
    /\ Goto(k, "L87")
    /\ LoopFrame
    /\ UNCHANGED <<typing_events, mouse_events, log>>

\* line 87: self.live_session.focus_scores.append(focus_score)
LoopLoadForFocus(k) == LoopLoadSession(k, "L87", "L87w")

LoopAppendFocus(k) ==
    /\ pc[k] = "L87w"
    /\ heap' = [heap EXCEPT ![loc[k].ref].focus_scores =
                   DequeAppend(@, loc[k].focus_score, BufMaxLen)]
    /\ loc' = [loc EXCEPT ![k].ref = None]
    /\ Goto(k, "L88")
    /\ LoopFrame
    /\ UNCHANGED <<typing_events, mouse_events, log>>

\* line 88: self.live_session.productivity_scores.append(productivity_score)
LoopLoadForProductivity(k) == LoopLoadSession(k, "L88", "L88w")

LoopAppendProductivity(k) ==
    /\ pc[k] = "L88w"
    /\ heap' = [heap EXCEPT ![loc[k].ref].productivity_scores =
                   DequeAppend(@, loc[k].productivity_score, BufMaxLen)]
    /\ loc' = [loc EXCEPT ![k].ref = None]
    /\ Goto(k, "L89")
    /\ LoopFrame
    /\ UNCHANGED <<typing_events, mouse_events, log>>

\* line 89: self.live_session.timestamps.append(current_time)
LoopLoadForTimestamp(k) == LoopLoadSession(k, "L89", "L89w")

\* line 89 recording an activity event as well
LoopAppendTimestampAndEvent(k) ==
    /\ pc[k] = "L89w"
    /\ heap' = [heap EXCEPT
           ![loc[k].ref].timestamps =
               DequeAppend(@, loc[k].current_time, BufMaxLen),
           ![loc[k].ref].activity_events =
               DequeAppend(@, loc[k].current_time, EventsMaxLen)]
    /\ IF loc[k].elapsed % BumpPeriod < 1
       THEN Goto(k, "L92") /\ loc' = [loc EXCEPT ![k].ref = None]
       ELSE EnterSleep(k)
    /\ LoopFrame
    /\ UNCHANGED <<typing_events, mouse_events, log>>

\* line 89, then line 91: if elapsed % 10 < 1 (else the sleep of line 94)
LoopAppendTimestamp(k) ==
    /\ pc[k] = "L89w"
    /\ heap' = [heap EXCEPT ![loc[k].ref].timestamps =
                   DequeAppend(@, loc[k].current_time, BufMaxLen)]
    /\ IF loc[k].elapsed % BumpPeriod < 1
       THEN Goto(k, "L92") /\ loc' = [loc EXCEPT ![k].ref = None]
       ELSE EnterSleep(k)
    /\ LoopFrame
    /\ UNCHANGED <<typing_events, mouse_events, log>>

\* line 92: self.typing_events += np.random.randint(5, 15): the read and the sum
LoopReadTyping(k) ==
    /\ pc[k] = "L92"
    /\ \E r \in TypingBumps : loc' = [loc EXCEPT ![k].tmp = typing_events + r]
    /\ Goto(k, "L92w")
    /\ LoopFrame
    /\ UNCHANGED <<heap, typing_events, mouse_events, log>>

\* line 92: the store
LoopWriteTyping(k) ==
    /\ pc[k] = "L92w"
    /\ typing_events' = loc[k].tmp
    /\ loc' = [loc EXCEPT ![k].tmp = 0]
    /\ Goto(k, "L93")
    /\ LoopFrame
    /\ UNCHANGED <<heap, mouse_events, log>>

\* line 93: self.mouse_events += np.random.randint(2, 8): the read and the sum
LoopReadMouse(k) ==
    /\ pc[k] = "L93"
    /\ \E r \in MouseBumps : loc' = [loc EXCEPT ![k].tmp = mouse_events + r]
    /\ Goto(k, "L93w")
    /\ LoopFrame
    /\ UNCHANGED <<heap, typing_events, mouse_events, log>>

\* line 93: the store, then the sleep of line 94
LoopWriteMouse(k) ==
    /\ pc[k] = "L93w"
    /\ mouse_events' = loc[k].tmp
    /\ EnterSleep(k)
    /\ LoopFrame
    /\ UNCHANGED <<heap, typing_events, log>>

\* line 94: time.sleep(1) returns, a second or more later
LoopWake(k) ==
    /\ pc[k] = "asleep"
    /\ slept[k]
    /\ pc' = [pc EXCEPT ![k] = "L71"]
    /\ slept' = [slept EXCEPT ![k] = FALSE]
    /\ LoopFrame
    /\ UNCHANGED <<loc, heap, typing_events, mouse_events, log>>

LoopStep(k) ==
    \/ LoopCheck(k)
    \/ LoopTestSession(k)
    \/ LoopSample(k)
    \/ LoopLoadForDuration(k)
    \/ LoopSetDuration(k)
    \/ LoopLoadForFocus(k)
    \/ LoopAppendFocus(k)
    \/ LoopLoadForProductivity(k)
    \/ LoopAppendProductivity(k)
    \/ LoopLoadForTimestamp(k)
    \/ LoopAppendTimestamp(k)
    \/ LoopReadTyping(k)
    \/ LoopWriteTyping(k)
    \/ LoopReadMouse(k)
    \/ LoopWriteMouse(k)
    \/ LoopWake(k)

\* ------------------------------------------------------ reader and clock
\* line 117: return self.live_session
ReturnedSession == live_session

\* get_live_session_data, called by a reader at any moment
GetLiveSessionData ==
    /\ snapshot' = ReturnedSession
    /\ UNCHANGED <<trackerVars, clockVars, heap, nalloc, callerVars,
                   loopVars, outVars, restVars>>

\* the clock advances by d seconds; a thread asleep has then slept its second
Tick(d) ==
    /\ nticks < MaxTicks
    /\ now' = now + d
    /\ nticks' = nticks + 1
    /\ slept' = [k \in SessionIds |-> slept[k] \/ pc[k] = "asleep"]
    /\ UNCHANGED <<trackerVars, heap, nalloc, callerVars, pc, loc, snapshot,
                   outVars, restVars>>

StartTracking ==
    \/ StartCheck
    \/ StartReturnNoop
    \/ StartSetTracking
    \/ StartResetCounters
    \/ StartNewSession
    \/ StartLaunchLoop

StopTracking ==
    \/ StopCheck
    \/ StopReturnNoop
    \/ StopClearTracking
    \/ StopTestDuration
    \/ StopAvgFocus
    \/ StopAvgProductivity
    \/ StopLogSummary
    \/ StopReleaseSession

Next ==
    \/ StartTracking
    \/ StopTracking
    \/ \E k \in SessionIds : LoopStep(k)
    \/ GetLiveSessionData
    \/ \E d \in TickSteps : Tick(d)

Spec == Init /\ [][Next]_vars

\* ------------------------------------------------------ a long session
\* the noise drawn in the iteration at second e of the session's past
PastNoise(e) == <<-10, 0, 15>>[(e % 3) + 1]

\* start_tracking at time 0 and its loop, undisturbed, one iteration a
\* second: the state when the loop wakes at second LongRun
InitLongSession ==
    /\ DequeIdle
    /\ sampled = NoSample
    /\ db_clock = 1
    /\ InitDatabase
    /\ GuiInit
    /\ now = LongRun
    /\ nticks = 0
    /\ is_tracking = TRUE
    /\ live_session = 1
    /\ session_start_time = 0
    /\ typing_events = (((LongRun - 1) \div BumpPeriod) + 1) * 5
    /\ mouse_events = (((LongRun - 1) \div BumpPeriod) + 1) * 2
    /\ app_switches = 0
    /\ heap = [s \in SessionIds |->
                 IF s # 1 THEN Unallocated
                 ELSE [LiveSessionData(0) EXCEPT
                     !.duration_seconds = LongRun - 1,
                     !.focus_scores =
                         [i \in 1..LongRun |->
                              FocusScore(i - 1, PastNoise(i - 1))],
                     !.productivity_scores =
                         [i \in 1..LongRun |->
                              ProductivityScore(i - 1, PastNoise(i - 1))],
                     !.timestamps = [i \in 1..LongRun |-> i - 1]]]
    /\ nalloc = 1
    /\ callerPc = "idle"
    /\ avg_focus = <<0, 1>>
    /\ avg_productivity = <<0, 1>>
    /\ pc = [k \in SessionIds |-> IF k = 1 THEN "L71" ELSE "none"]
    /\ slept = [k \in SessionIds |-> FALSE]
    /\ loc = [k \in SessionIds |-> NoLocals]
    /\ snapshot = None
    /\ log = [NoLog EXCEPT !.started = 1]
    /\ summaries = [s \in SessionIds |-> <<>>]
    /\ persisted = <<>>
    /\ stop_returned = {}

\* that session goes on: its loop, the clock, a reader, and stop_tracking
NextLongSession ==
    \/ StopTracking
    \/ LoopStep(1)
    \/ GetLiveSessionData
    \/ \E d \in TickSteps : Tick(d)

SpecLongSession == InitLongSession /\ [][NextLongSession]_vars

\* ------------------------------------------- sessions at the threshold
\* the clock advances that leave a session's duration at 10 s and at 11 s
ThresholdTicks == {10, 11}

\* the engine with those clock advances, and no reader
NextThreshold ==
    \/ StartTracking
    \/ StopTracking
    \/ \E k \in SessionIds : LoopStep(k)
    \/ \E d \in ThresholdTicks : Tick(d)

SpecThreshold == Init /\ [][NextThreshold]_vars

\* ------------------------------------------------------------ the GUI
\* what the first statement of a tracker method called from a handler
\* leaves alone
GuiCallFrame ==
    UNCHANGED <<trackerVars, clockVars, heap, nalloc, avg_focus,
                avg_productivity, loopVars, snapshot, outVars, dequeVars,
                sampled, dbVars, btn_start_tracking, btn_stop_tracking>>

\* what the widget calls of a handler leave alone
GuiWidgetFrame == UNCHANGED <<engineVars, dequeVars, sampled, dbVars>>

\* the START button, enabled, is clicked: app.py line 1241 calls
\* tracker.start_tracking(), and its lines 51-52 run (tk does not invoke the
\* command of a button whose state is 'disabled')
GuiStartTracking ==
    /\ gui = "ready"
    /\ btn_start_tracking = "normal"
    /\ callerPc = "idle"
    /\ is_tracking \/ nalloc < MaxSessions
    /\ callerPc' = IF is_tracking THEN "S52" ELSE "S53"
    /\ gui' = "start_tracking"
    /\ GuiCallFrame

\* app.py lines 1244-1259: tracker.start_tracking() has returned; START is
\* disabled, STOP enabled, the message box shown and closed
GuiStartUpdate ==
    /\ gui = "start_tracking"
    /\ callerPc = "idle"
    /\ btn_start_tracking' = "disabled"
    /\ btn_stop_tracking' = "normal"
    /\ gui' = "ready"
    /\ GuiWidgetFrame

\* the STOP button, enabled, is clicked: app.py line 1265 calls
\* tracker.stop_tracking(), and its lines 101-102 run
GuiStopTracking ==
    /\ gui = "ready"
    /\ btn_stop_tracking = "normal"
    /\ callerPc = "idle"
    /\ callerPc' = IF is_tracking THEN "P103" ELSE "P102"
    /\ gui' = "stop_tracking"
    /\ GuiCallFrame

\* the stop handler enabling neither button
GuiStopUpdateStopOnly ==
    /\ gui = "stop_tracking"
    /\ callerPc = "idle"
    /\ btn_stop_tracking' = "disabled"
    /\ gui' = "ready"
    /\ UNCHANGED btn_start_tracking
    /\ GuiWidgetFrame

\* app.py lines 1268-1283: tracker.stop_tracking() has returned; START is
\* enabled, STOP disabled, the message box shown and closed
GuiStopUpdate ==
    /\ gui = "stop_tracking"
    /\ callerPc = "idle"
    /\ btn_start_tracking' = "normal"
    /\ btn_stop_tracking' = "disabled"
    /\ gui' = "ready"
    /\ GuiWidgetFrame

\* the window is closed: on_closing, app.py lines 1306-1307: if
\* self.tracker.is_tracking: self.tracker.stop_tracking(), whose lines
\* 101-102 run
GuiOnClosing ==
    /\ gui = "ready"
    /\ callerPc = "idle"
    /\ callerPc' = IF is_tracking THEN "P103" ELSE "idle"
    /\ gui' = "on_closing"
    /\ GuiCallFrame

\* app.py lines 1309-1310: plt.close('all'); self.root.destroy()
GuiDestroy ==
    /\ gui = "on_closing"
    /\ callerPc = "idle"
    /\ gui' = "closed"
    /\ UNCHANGED <<btn_start_tracking, btn_stop_tracking>>
    /\ GuiWidgetFrame

\* the statements of start_tracking and stop_tracking after their guards;
\* the returns of lines 52 and 102 are not among them: the buttons let
\* start_tracking be called only by START, stop_tracking only by STOP or
\* after on_closing's own test of is_tracking
GuiTrackerCall ==
    \/ StartSetTracking
    \/ StartResetCounters
    \/ StartNewSession
    \/ StartLaunchLoop
    \/ StopClearTracking
    \/ StopTestDuration
    \/ StopAvgFocus
    \/ StopAvgProductivity
    \/ StopLogSummary
    \/ StopReleaseSession

\* the GUI thread with its handlers, the loop threads, the clock
NextGui ==
    \/ GuiStartTracking
    \/ GuiStartUpdate
    \/ GuiStopTracking
    \/ GuiStopUpdate
    \/ GuiOnClosing
    \/ GuiDestroy
    \/ GuiTrackerCall
    \/ \E k \in SessionIds : LoopStep(k)
    \/ \E d \in TickSteps : Tick(d)

SpecGui == Init /\ [][NextGui]_vars

\* ------------------------------------------------- a deque on its own
\* the maxlen of the deque under study, and the values appended to it
DequeMaxLens == {1, 2, 3}
DequeValues == {0, 1}

\* deque(maxlen=n), empty, beside an idle tracker
InitDeque ==
    /\ TrackerInit
    /\ dq_maxlen \in DequeMaxLens
    /\ dq = <<>>
    /\ dq_appended = <<>>
    /\ sampled = NoSample
    /\ db_clock = 1
    /\ InitDatabase
    /\ GuiInit

\* dq.append(v)
DequeStep(v) ==
    /\ Len(dq_appended) < MaxAppends
    /\ dq' = DequeAppend(dq, v, dq_maxlen)
    /\ dq_appended' = Append(dq_appended, v)
    /\ UNCHANGED <<dq_maxlen, sampled, dbVars, engineVars, guiVars>>

NextDeque == \E v \in DequeValues : DequeStep(v)

SpecDeque == InitDeque /\ [][NextDeque]_vars

\* ------------------------------------- the score computation on its own
\* noise draws far out in both tails of np.random.normal, and near 0
WideNoise == {-200, -66, -1, 0, 1, 16, 200}

\* lines 77-84 for one elapsed time and one noise draw for each score
Synthesize(elapsed, noise) ==
    /\ sampled' = [elapsed |-> elapsed, noise |-> noise,
                   focus_score |-> FocusScore(elapsed, noise[1]),
                   productivity_score |-> ProductivityScore(elapsed, noise[2])]
    /\ UNCHANGED <<dequeVars, dbVars, engineVars, guiVars>>

NextSynth ==
    \E elapsed \in 0..MaxElapsed, noise \in WideNoise \X WideNoise :
        Synthesize(elapsed, noise)

SpecSynth == Init /\ [][NextSynth]_vars

\* ----------------------------------------------------- the session store
\* datetime.now() in the database code
DbNow == DbInstants[db_clock]

\* the fields the dataclass AdvancedFocusSession declares: its body is `pass`
AdvancedFocusSessionFields == {}

\* the keyword arguments of the call of lines 115-140
SessionKeywords ==
    {"id", "timestamp", "application", "window_title", "duration_seconds",
     "category", "subcategory", "focus_score", "productivity_score",
     "distraction_score", "typing_events", "mouse_events", "clicks",
     "scrolls", "app_switches", "idle_time", "active_time",
     "peak_activity_period", "energy_level", "context_switches",
     "memory_usage_mb", "cpu_usage_percent", "screen_time_quality",
     "break_compliance"}

\* AdvancedFocusSession(**kwargs) raises TypeError on a keyword that is no
\* field of the dataclass
ConstructorAccepts(keywords) == keywords \subseteq AdvancedFocusSessionFields

\* the object lines 115-140 build from a row, when the constructor accepts
SessionOf(row) ==
    [id |-> row.id,
     timestamp |-> FromIsoFormat(row.timestamp),
     application |-> row.application,
     category |-> IF row.category = "" THEN "Uncategorized" ELSE row.category]

\* SELECT * FROM sessions, with no WHERE
SelectedAll(cutoff_date) ==
    {sessions_table[i] : i \in DOMAIN sessions_table}

\* SELECT * FROM sessions WHERE timestamp <= ?
SelectedUpTo(cutoff_date) ==
    {sessions_table[i] : i \in
        {j \in DOMAIN sessions_table :
            ~TextLess(cutoff_date, sessions_table[j].timestamp)}}

\* SELECT * FROM sessions WHERE timestamp >= ?
Selected(cutoff_date) ==
    {sessions_table[i] : i \in
        {j \in DOMAIN sessions_table :
            ~TextLess(sessions_table[j].timestamp, cutoff_date)}}

\* ORDER BY timestamp ASC
RECURSIVE OrderByTimestampAsc(_)
OrderByTimestampAsc(rows) ==
    IF rows = {} THEN <<>>
    ELSE LET first == CHOOSE r \in rows : \A q \in rows :
                 \/ q = r
                 \/ TextLess(r.timestamp, q.timestamp)
                 \/ q.timestamp = r.timestamp /\ q.id > r.id
         IN  <<first>> \o OrderByTimestampAsc(rows \ {first})

\* ORDER BY timestamp DESC (rows of equal timestamp in the order of the table)
RECURSIVE OrderByTimestampDesc(_)
OrderByTimestampDesc(rows) ==
    IF rows = {} THEN <<>>
    ELSE LET first == CHOOSE r \in rows : \A q \in rows :
                 \/ q = r
                 \/ TextLess(q.timestamp, r.timestamp)
                 \/ q.timestamp = r.timestamp /\ q.id > r.id
         IN  <<first>> \o OrderByTimestampDesc(rows \ {first})

\* lines 107-143, the try block: the cutoff, the query, one object for each
\* row; the exception is the OverflowError of the subtraction or the
\* TypeError of the constructor
TryGetSessions(days) ==
    LET cutoff == MinusDays(DbNow, days) IN
    IF ~Representable(cutoff)
    THEN [fetched |-> <<>>, sessions |-> <<>>, exception |-> TRUE]
    ELSE LET rows == OrderByTimestampDesc(Selected(IsoFormat(cutoff))) IN
         IF rows # <<>> /\ ~ConstructorAccepts(SessionKeywords)
         THEN [fetched |-> rows, sessions |-> <<>>, exception |-> TRUE]
         ELSE [fetched |-> rows,
               sessions |-> [i \in DOMAIN rows |-> SessionOf(rows[i])],
               exception |-> FALSE]

\* get_sessions without its except clause
GetSessionsUncaught(days) ==
    LET body == TryGetSessions(days) IN
    [asked |-> TRUE, fetched |-> body.fetched, returned |-> body.sessions,
     failed |-> body.exception, raised |-> body.exception]

\* get_sessions(days): the try block, and lines 144-146: except Exception:
\* print, return []
GetSessionsResult(days) ==
    LET body == TryGetSessions(days) IN
    [asked |-> TRUE, fetched |-> body.fetched,
     returned |-> IF body.exception THEN <<>> ELSE body.sessions,
     failed |-> body.exception, raised |-> FALSE]

\* a get_sessions whose second call finds the rows already fetched
GetSessionsExhausting(days) ==
    /\ answers' = [answers EXCEPT ![days] =
           IF answers[days].asked
           THEN [GetSessionsResult(days) EXCEPT !.fetched = <<>>,
                                                !.returned = <<>>]
           ELSE GetSessionsResult(days)]
    /\ UNCHANGED <<db_clock, sessions_table, sqlite_sequence, db_last,
                   exported, dequeVars, sampled, engineVars, guiVars>>

\* a get_sessions that deletes the rows it has read
GetSessionsConsuming(days) ==
    /\ answers' = [answers EXCEPT ![days] = GetSessionsResult(days)]
    /\ sessions_table' =
           SelectSeq(sessions_table,
               LAMBDA r : \A f \in Range(GetSessionsResult(days).fetched) :
                              f.id # r.id)
    /\ UNCHANGED <<db_clock, sqlite_sequence, db_last, exported,
                   dequeVars, sampled, engineVars, guiVars>>

\* db_manager.get_sessions(days=days) is called
GetSessions(days) ==
    /\ answers' = [answers EXCEPT ![days] = GetSessionsResult(days)]
    /\ UNCHANGED <<db_clock, sessions_table, sqlite_sequence, db_last,
                   exported, dequeVars, sampled, engineVars, guiVars>>

\* the database file as it is
Database == [rows |-> sessions_table, sequence |-> sqlite_sequence]

\* the timestamps of the rows inserted: now, a day ago to the microsecond,
\* a second more than a day ago, three days ago
InsertTimes ==
    {DbNow, MinusDays(DbNow, 1), <<DbNow[1] - 1, DbNow[2] - 1, 0>>,
     MinusDays(DbNow, 3)}

\* a row is inserted through sqlite3, as the tests do; AUTOINCREMENT gives
\* it the next id
InsertSession(dt) ==
    LET db == InsertRow(Database,
                  [timestamp |-> IsoFormat(dt),
                   application |-> "testapp.exe",
                   category |-> "Testing"])
    IN  /\ Len(sessions_table) < Len(DemoSessions) + MaxInserts
        /\ sessions_table' = db.rows
        /\ sqlite_sequence' = db.sequence
        /\ db_last' = [db_last EXCEPT !.op = "insert"]
        /\ answers' = [d \in DaysArgs |-> NotAsked]
        /\ exported' = NotExported
        /\ UNCHANGED <<db_clock, dequeVars, sampled, engineVars, guiVars>>

\* another AdvancedDatabaseManager (or tracker, which constructs one) is
\* constructed on the same db_path: init_database runs on the file as it is
Reinitialize ==
    LET db == InitDatabaseOn(Database)
    IN  /\ sessions_table' = db.rows
        /\ sqlite_sequence' = db.sequence
        /\ db_last' = [op |-> "init", dropped |-> Len(sessions_table)]
        /\ answers' = [d \in DaysArgs |-> NotAsked]
        /\ exported' = NotExported
        /\ UNCHANGED <<db_clock, dequeVars, sampled, engineVars, guiVars>>

\* time passes
DbTick ==
    /\ db_clock < Len(DbInstants)
    /\ db_clock' = db_clock + 1
    /\ answers' = [d \in DaysArgs |-> NotAsked]
    /\ exported' = NotExported
    /\ UNCHANGED <<sessions_table, sqlite_sequence, db_last,
                   dequeVars, sampled, engineVars, guiVars>>

NextDb ==
    \/ \E days \in DaysArgs : GetSessions(days)
    \/ \E dt \in InsertTimes : InsertSession(dt)
    \/ Reinitialize
    \/ DbTick

SpecDb == Init /\ [][NextDb]_vars

\* -------------------------------------------------------------- export
\* the values of days export_enhanced_data is called with: its default,
\* a day, and one too large for timedelta
ExportDays == {1, 30, 4000000}

\* lines 127-136: the dict built from a session
CsvRow(session) ==
    [timestamp |-> IsoFormat(session.timestamp),
     application |-> session.application,
     category |-> session.category]

\* line 141: focuspulse_masterpiece_export_<%Y%m%d_%H%M%S>.csv
CsvFileName == <<"focuspulse_masterpiece_export_", DbNow, ".csv">>

\* the file name ends in ".csv"
EndsWithCsv(filename) ==
    filename # <<>> /\ filename[Len(filename)] = ".csv"

\* export_enhanced_data("csv", days), lines 121-145: "" when get_sessions
\* gives nothing; else the rows, and the csv file written through pandas,
\* unless a step raises (no pandas to import, no file to write to), which
\* the except clause turns into ""
ExportOutcomes(days) ==
    LET sessions == GetSessionsResult(days).returned IN
    IF sessions = <<>>
    THEN {[called |-> TRUE, days |-> days, step_failed |-> FALSE,
           filename |-> <<>>, rows |-> <<>>, raised |-> FALSE]}
    ELSE {[called |-> TRUE, days |-> days, step_failed |-> FALSE,
           filename |-> CsvFileName,
           rows |-> [i \in DOMAIN sessions |-> CsvRow(sessions[i])],
           raised |-> FALSE],
          [called |-> TRUE, days |-> days, step_failed |-> TRUE,
           filename |-> <<>>, rows |-> <<>>, raised |-> FALSE]}

\* tracker.export_enhanced_data("csv", days) is called
Export(days) ==
    /\ exported' \in ExportOutcomes(days)
    /\ UNCHANGED <<db_clock, sessions_table, sqlite_sequence, db_last,
                   answers, dequeVars, sampled, engineVars, guiVars>>

NextExport ==
    \/ \E days \in ExportDays : Export(days)
    \/ \E dt \in InsertTimes : InsertSession(dt)
    \/ DbTick

SpecExport == Init /\ [][NextExport]_vars

\* ------------------------------------------------------------ properties
\* thread k exists and has not ended
Alive(k) == pc[k] \notin {"none", "done"}

\* thread k is inside the body of `if self.live_session` (lines 74-93)
Sampling(k) ==
    pc[k] \in {"L74", "L86", "L86w", "L87", "L87w", "L88", "L88w", "L89",
               "L89w", "L92", "L92w", "L93", "L93w"}

\* this step is a step of thread k
LoopStepped(k) == pc[k] # "none" /\ pc'[k] # pc[k]

\* the session is visible to a reader now: the tracker holds it, or
\* get_live_session_data has returned it
Observable == {live_session, snapshot} \ {None}

\* between calls, with every started session stopped / with one running
CallerIdleAfterStop == callerPc = "idle" /\ log.stopped = log.started
CallerIdleAfterStart == callerPc = "idle" /\ log.started > log.stopped

\* the mean <<sum, count>> lies in [lo, hi]
MeanWithin(mean, lo, hi) ==
    /\ mean[2] > 0
    /\ lo * mean[2] <= mean[1]
    /\ mean[1] <= hi * mean[2]

\* C1: at most one _tracking_loop thread is alive and sampling at any time.
C1_AtMostOneLoopSampling ==
    Cardinality({k \in SessionIds : Sampling(k)}) <= 1

\* C2: once the stop_tracking of a session has returned, the loop launched
\* for that session writes no session's duration_seconds and appends to no
\* session's buffers.
C2_NoMutationAfterStop ==
    [][\A k \in SessionIds :
          (k \in stop_returned /\ LoopStepped(k)) => heap' = heap]_vars

\* C3: whenever a reader can observe a LiveSessionData, its timestamps,
\* focus_scores and productivity_scores have the same length.
C3_BuffersAligned ==
    \A s \in Observable :
        /\ Len(heap[s].timestamps) = Len(heap[s].focus_scores)
        /\ Len(heap[s].focus_scores) = Len(heap[s].productivity_scores)

\* C4: start_tracking called while is_tracking is true returns at line 52
\* having launched no thread and changed none of live_session, the session
\* objects, session_start_time, typing_events, mouse_events, app_switches.
C4_StartWhileTrackingIsNoop ==
    [][(\/ callerPc = "idle" /\ callerPc' \in {"S52", "S53"} /\ is_tracking
        \/ callerPc = "S52" /\ callerPc' # "S52")
       => /\ callerPc' = IF callerPc = "idle" THEN "S52" ELSE "idle"
          /\ UNCHANGED <<is_tracking, live_session, heap, nalloc,
                         session_start_time, typing_events, mouse_events,
                         app_switches, pc>>]_vars

C4_Witness ==
    /\ callerPc = "S52"
    /\ is_tracking
    /\ live_session # None
    /\ Len(heap[live_session].focus_scores) > 0

\* C5: a stop_tracking called while is_tracking is true keeps is_tracking
\* false from line 103 on and has returned with is_tracking false and
\* live_session None, whatever the loop threads were doing or had done.
C5_StopReturnsToIdle ==
    /\ callerPc \in {"P106", "P107", "P108", "P109", "P112"} => ~is_tracking
    /\ CallerIdleAfterStop => (~is_tracking /\ live_session = None)

C5_Witness ==
    /\ CallerIdleAfterStop
    /\ log.stopped > 0
    /\ log.error > 0
    /\ \E k \in SessionIds : Sampling(k)

\* C6: between the return of a successful start_tracking and the next call
\* of stop_tracking get_live_session_data returns a session; between the
\* return of a stop_tracking and the next start_tracking it returns None.
C6_SessionRetrievableIffStarted ==
    /\ CallerIdleAfterStart => ReturnedSession # None
    /\ CallerIdleAfterStop => ReturnedSession = None

C6_Witness ==
    /\ CallerIdleAfterStart
    /\ log.stopped > 0
    /\ snapshot # None
    /\ snapshot = ReturnedSession

\* C7: stop_tracking called while is_tracking is false returns at line 102
\* having changed no field of the tracker or of a session, computed no
\* summary, logged nothing and persisted nothing.
C7_StopWhileIdleIsNoop ==
    [][(\/ callerPc = "idle" /\ callerPc' \in {"P102", "P103"} /\ ~is_tracking
        \/ callerPc = "P102" /\ callerPc' # "P102")
       => /\ callerPc' = IF callerPc = "idle" THEN "P102" ELSE "idle"
          /\ UNCHANGED <<trackerVars, heap, nalloc, avg_focus,
                         avg_productivity, pc, log, summaries, persisted,
                         stop_returned>>]_vars

C7_Witness ==
    /\ callerPc = "P102"
    /\ log.stopped > 0
    /\ \E k \in SessionIds : Alive(k)

\* C8: a session that stop_tracking found longer than 10 seconds has had its
\* summary handed to db_manager exactly once when stop_tracking has returned.
C8_SummaryPersistedOnce ==
    \A s \in stop_returned :
        Len(summaries[s]) > 0 =>
            Cardinality({i \in DOMAIN persisted : persisted[i].session = s}) = 1

\* C9: the loop launched for a session finds is_tracking false at its first
\* loop check after that session's stop_tracking has returned, and ends.
C9_LoopEndsAtNextCheck ==
    [][\A k \in SessionIds :
          (k \in stop_returned /\ pc[k] = "L71" /\ LoopStepped(k))
              => pc'[k] = "done"]_vars

\* C10: a step in which a loop thread catches an exception ends that thread
\* and changes neither is_tracking nor live_session nor the caller's position
\* nor any session.
C10_LoopExceptionContained ==
    [][\A k \in SessionIds :
          (LoopStepped(k) /\ log'.error # log.error)
              => /\ pc'[k] = "done"
                 /\ UNCHANGED <<is_tracking, live_session, callerPc, heap>>]_vars

C10_Witness ==
    /\ log.error > 0
    /\ is_tracking
    /\ live_session # None
    /\ \E k \in SessionIds : pc[k] = "done"
    /\ \E k \in SessionIds : Alive(k)

\* C11: in every reachable state the focus_scores, productivity_scores and
\* timestamps of every LiveSessionData hold at most 300 elements and its
\* activity_events at most 60, however many iterations have run.
C11_BuffersBounded ==
    \A s \in SessionIds :
        /\ Len(heap[s].focus_scores) <= BufMaxLen
        /\ Len(heap[s].productivity_scores) <= BufMaxLen
        /\ Len(heap[s].timestamps) <= BufMaxLen
        /\ Len(heap[s].activity_events) <= EventsMaxLen

\* the 301st sample of a session has been appended
C11_Witness ==
    /\ Len(heap[1].timestamps) = BufMaxLen
    /\ Len(heap[1].focus_scores) = BufMaxLen
    /\ Len(heap[1].productivity_scores) = BufMaxLen
    /\ Head(heap[1].timestamps) > 0

\* C12: after M appends a buffer of capacity N holds exactly the last N
\* appended elements, oldest first, when M > N, and all M in order otherwise.
C12_DequeKeepsLastN ==
    LET M == Len(dq_appended)
        N == dq_maxlen
    IN  dq = IF M > N THEN SubSeq(dq_appended, M - N + 1, M) ELSE dq_appended

\* more appends than the capacity, and the content tells old from new
C12_Witness ==
    /\ dq_maxlen = 3
    /\ Len(dq_appended) > dq_maxlen + 1
    /\ dq[1] # dq[3]
    /\ dq_appended[1] # dq[1]

\* C13: every value the loop computes for focus_scores lies in [20,100] and
\* every value it computes for productivity_scores in [30,100], for every
\* elapsed time and every noise draw.
C13_ScoresInRange ==
    sampled.elapsed # NoTime =>
        /\ FocusFloor <= sampled.focus_score
        /\ sampled.focus_score <= ScoreCeiling
        /\ ProdFloor <= sampled.productivity_score
        /\ sampled.productivity_score <= ScoreCeiling

\* a draw that needs the floor of one score and the ceiling of the other
C13_Witness ==
    /\ sampled.elapsed > 0
    /\ FocusBase + SinTerm(sampled.elapsed) + sampled.noise[1] < FocusFloor
    /\ ProdBase + CosTerm(sampled.elapsed) + sampled.noise[2] > ScoreCeiling
    /\ sampled.focus_score = FocusFloor
    /\ sampled.productivity_score = ScoreCeiling

\* C14: the average focus score stop_tracking computes for a session it
\* summarises lies in [20,100] and the average productivity score in
\* [30,100], the buffers having been filled by the sampling loop.
C14_AveragesInRange ==
    /\ callerPc \in {"P108", "P109"} =>
           MeanWithin(avg_focus, FocusFloor, ScoreCeiling)
    /\ callerPc = "P109" =>
           MeanWithin(avg_productivity, ProdFloor, ScoreCeiling)
    /\ \A s \in SessionIds : \A i \in DOMAIN summaries[s] :
           /\ MeanWithin(summaries[s][i].avg_focus, FocusFloor, ScoreCeiling)
           /\ MeanWithin(summaries[s][i].avg_productivity, ProdFloor,
                         ScoreCeiling)

\* a summary over a full buffer that holds clamped and unclamped samples
C14_Witness ==
    /\ Len(summaries[1]) > 0
    /\ summaries[1][1].avg_focus[2] = BufMaxLen
    /\ summaries[1][1].avg_productivity[2] = BufMaxLen
    /\ \E i \in DOMAIN heap[1].focus_scores :
           heap[1].focus_scores[i] = ScoreCeiling
    /\ \E i \in DOMAIN heap[1].focus_scores :
           heap[1].focus_scores[i] < FocusBase

\* C15: while a session is being tracked no step, of whichever loop thread,
\* lowers its duration_seconds.
C15_DurationNeverDecreases ==
    [][\A s \in SessionIds :
          (is_tracking /\ live_session = s /\ live_session' = s)
              => heap'[s].duration_seconds >= heap[s].duration_seconds]_vars

\* dt is not before now - days
InWindow(dt, days) == ~DtLess(dt, MinusDays(DbNow, days))

\* the values of days get_sessions has answered for this table and time
Asked == {d \in DaysArgs : answers[d].asked}

\* C16: every record get_sessions(days) returns, and every row its query
\* selects, has a timestamp >= now - days.
C16_ReturnedInsideWindow ==
    \A d \in Asked :
        /\ \A s \in Range(answers[d].returned) : InWindow(s.timestamp, d)
        /\ \A r \in Range(answers[d].fetched) :
               InWindow(FromIsoFormat(r.timestamp), d)

\* a call that selected some rows of the table and left others out, one of
\* the selected rows lying exactly on the cutoff
C16_Witness ==
    \E d \in Asked :
        /\ answers[d].fetched # <<>>
        /\ Len(answers[d].fetched) < Len(sessions_table)
        /\ \E r \in Range(answers[d].fetched) :
               FromIsoFormat(r.timestamp) = MinusDays(DbNow, d)

\* C17: get_sessions(days) returns every stored record whose timestamp is
\* >= now - days.
C17_EveryRecordInsideWindowReturned ==
    \A d \in Asked :
        Representable(MinusDays(DbNow, d)) =>
            \A r \in Range(sessions_table) :
                InWindow(FromIsoFormat(r.timestamp), d) =>
                    \E s \in Range(answers[d].returned) : s.id = r.id

\* the sequence of datetimes is newest first
NewestFirst(times) ==
    \A i \in DOMAIN times : i > 1 => ~DtLess(times[i - 1], times[i])

\* C18: the records get_sessions returns, and the rows its query selects,
\* are ordered newest first.
C18_ResultNewestFirst ==
    \A d \in Asked :
        /\ NewestFirst([i \in DOMAIN answers[d].returned |->
               answers[d].returned[i].timestamp])
        /\ NewestFirst([i \in DOMAIN answers[d].fetched |->
               FromIsoFormat(answers[d].fetched[i].timestamp)])

\* a call that selected the demo rows and an inserted one, not in the order
\* of the table
C18_Witness ==
    \E d \in Asked :
        /\ Len(answers[d].fetched) > Len(DemoSessions)
        /\ answers[d].fetched[1].id < answers[d].fetched[2].id
        /\ answers[d].fetched[2].id > answers[d].fetched[3].id

\* C19: for one table content and one current time, d1 <= d2 implies that
\* what get_sessions(d1) returns is among what get_sessions(d2) returns;
\* and so for the rows the two queries select, when the cutoff of d2 is a
\* date.
C19_MoreDaysMoreRecords ==
    \A d1 \in Asked : \A d2 \in Asked :
        d1 <= d2 =>
            /\ Range(answers[d1].returned) \subseteq Range(answers[d2].returned)
            /\ Representable(MinusDays(DbNow, d2)) =>
                   Range(answers[d1].fetched) \subseteq
                       Range(answers[d2].fetched)

\* get_sessions(2) selected fewer rows than get_sessions(100), and some
C19_Witness ==
    /\ {2, 100} \subseteq Asked
    /\ answers[2].fetched # <<>>
    /\ Len(answers[2].fetched) < Len(answers[100].fetched)

\* C20: get_sessions never raises to its caller; when connecting, querying
\* or converting the rows fails it returns an empty list.
C20_GetSessionsNeverRaises ==
    \A d \in Asked :
        /\ ~answers[d].raised
        /\ answers[d].failed => answers[d].returned = <<>>

\* one call failed on the cutoff, one on the first row, one did not fail
C20_Witness ==
    \E d1 \in Asked, d2 \in Asked, d3 \in Asked :
        /\ answers[d1].failed /\ answers[d1].fetched = <<>>
        /\ answers[d2].failed /\ answers[d2].fetched # <<>>
        /\ ~answers[d3].failed

\* C21: on a table holding just the 5 demo rows of init_database,
\* get_sessions(days=7) returns the 5 demo records.
C21_SeededStoreReturnsAllFive ==
    (sessions_table = DemoSessions /\ answers[7].asked) =>
        {s.id : s \in Range(answers[7].returned)} =
            {r.id : r \in Range(DemoSessions)}

\* a is the beginning of b: every row of a is in b, in place and unaltered
IsPrefix(a, b) == Len(a) <= Len(b) /\ SubSeq(b, 1, Len(a)) = a

\* C22 as stated: no operation (another manager or tracker constructed on
\* the path, init_database, get_sessions) removes or alters a row once it
\* is in the sessions table.
C22_StoreAppendOnly ==
    [][IsPrefix(sessions_table, sessions_table')]_vars

\* C22, amended: get_sessions and inserts remove and alter no row; only
\* init_database does, and it leaves the table holding the 5 demo rows.
C22_AppendOnlyBetweenInits ==
    [][\/ IsPrefix(sessions_table, sessions_table')
       \/ /\ db_last'.op = "init"
          /\ sessions_table' = DemoSessions]_vars

\* rows were inserted, an init_database dropped them with the demo rows,
\* rows were inserted again and get_sessions has read the table
C22_Witness ==
    /\ db_last.op = "insert"
    /\ db_last.dropped > Len(DemoSessions)
    /\ \E d \in Asked : Len(answers[d].fetched) > Len(DemoSessions)

\* C23: after every init_database the sessions table holds exactly the 5
\* demo rows, whatever it held before; so running it twice leaves what
\* running it once leaves.
C23_InitLeavesDemoRows ==
    db_last.op = "init" => sessions_table = DemoSessions

\* init_database has just run on a table that held inserted rows as well
C23_Witness ==
    /\ db_last.op = "init"
    /\ db_last.dropped > Len(DemoSessions)

\* C25: the rows of the sessions table carry strictly increasing ids in
\* insertion order, so no two rows share an id, and the demo rows carry
\* 1..5 after every init_database.
C25_IdsIncreaseFromOne ==
    /\ \A i, j \in DOMAIN sessions_table :
           i < j => sessions_table[i].id < sessions_table[j].id
    /\ \A i \in DOMAIN DemoData :
           /\ i \in DOMAIN sessions_table
           /\ sessions_table[i].id = i
           /\ sessions_table[i].application = DemoData[i].application

\* rows were inserted after an init_database that had dropped rows
\* inserted before it
C25_Witness ==
    /\ db_last.op = "insert"
    /\ db_last.dropped > Len(DemoSessions)
    /\ Len(sessions_table) = Len(DemoSessions) + MaxInserts

\* C24: every stored record inside the window comes back from
\* get_sessions as an object that carries, field by field, the values
\* that were stored.
C24_RetrievedAsStored ==
    \A d \in Asked :
        Representable(MinusDays(DbNow, d)) =>
            \A r \in Range(sessions_table) :
                InWindow(FromIsoFormat(r.timestamp), d) =>
                    \E s \in Range(answers[d].returned) :
                        /\ s.id = r.id
                        /\ IsoFormat(s.timestamp) = r.timestamp
                        /\ s.application = r.application
                        /\ s.category = r.category

\* C26: export_enhanced_data("csv", days) never raises; it returns a name
\* ending in ".csv", of a file with one data row per record of
\* get_sessions(days), whenever the store holds a record inside the window
\* and no step failed, and returns "" when get_sessions yields nothing or
\* a step fails.
C26_ExportWritesCsv ==
    exported.called =>
        LET d == exported.days
            records == GetSessionsResult(d).returned
            stored == {r \in Range(sessions_table) :
                          /\ Representable(MinusDays(DbNow, d))
                          /\ InWindow(FromIsoFormat(r.timestamp), d)}
        IN  /\ ~exported.raised
            /\ (stored # {} /\ ~exported.step_failed) =>
                   /\ EndsWithCsv(exported.filename)
                   /\ Len(exported.rows) = Len(records)
                   /\ Len(exported.rows) = Cardinality(stored)
            /\ (records = <<>> \/ exported.step_failed) =>
                   exported.filename = <<>>

\* stop_tracking has set is_tracking to False (line 103) and has not yet
\* released the session (line 112)
StopInProgress == callerPc \in {"P106", "P107", "P108", "P109", "P112"}

\* C27 as stated: in every reachable state, the intermediate states of
\* start_tracking and stop_tracking included, is_tracking == False implies
\* live_session is None.
C27_NoSessionWhileNotTracking ==
    ~is_tracking => live_session = None

\* C27, amended: is_tracking == False implies live_session is None in
\* every state but those of a stop_tracking between its lines 103 and 112.
C27_NoSessionOutsideStop ==
    (~is_tracking /\ ~StopInProgress) => live_session = None

\* a stop_tracking has returned, and a loop thread is still there to
\* observe the tracker
C27_Witness ==
    /\ ~is_tracking
    /\ callerPc = "idle"
    /\ log.stopped > 0
    /\ \E k \in SessionIds : Alive(k)

\* C28: from the moment stop_tracking has set is_tracking to False until it
\* releases live_session, no step appends a sample to a buffer of the
\* session.
C28_NoAppendDuringStop ==
    [][(StopInProgress /\ live_session # None) =>
          /\ heap'[live_session].focus_scores =
                 heap[live_session].focus_scores
          /\ heap'[live_session].productivity_scores =
                 heap[live_session].productivity_scores
          /\ heap'[live_session].timestamps =
                 heap[live_session].timestamps]_vars

\* C29: when a start_tracking that was called while idle returns,
\* is_tracking is true, the three counters are 0, and live_session is a
\* new LiveSessionData with start_time = session_start_time, duration 0
\* and empty buffers.
C29_StartLeavesCleanSession ==
    [][(callerPc = "S65" /\ callerPc' = "idle") =>
          /\ is_tracking'
          /\ typing_events' = 0
          /\ mouse_events' = 0
          /\ app_switches' = 0
          /\ live_session' # None
          /\ heap'[live_session'] = LiveSessionData(session_start_time')]_vars

\* C30: stop_tracking goes on to compute and emit a summary only when the
\* test of line 106 finds live_session.duration_seconds greater than 10;
\* with a duration of 10 or less it emits none, and still releases the
\* session and returns to Idle.
C30_SummaryOnlyAboveThreshold ==
    [][/\ (callerPc = "P106" /\ callerPc' # "P106") =>
              callerPc' =
                  IF /\ live_session # None
                     /\ heap[live_session].duration_seconds > MinDuration
                  THEN "P107" ELSE "P112"
       /\ (callerPc' = "P107" /\ callerPc # "P107") => callerPc = "P106"
       /\ (callerPc' = "P108" /\ callerPc # "P108") => callerPc = "P107"
       /\ (callerPc' = "P109" /\ callerPc # "P109") => callerPc = "P108"
       /\ (summaries' # summaries \/ log'.completed # log.completed) =>
              callerPc = "P109"
       /\ (callerPc = "P112" /\ callerPc' # "P112") =>
              /\ callerPc' = "idle"
              /\ live_session' = None
              /\ ~is_tracking']_vars

\* stop_tracking has found a duration of exactly 10 and is about to release
\* the session, no summary of it emitted
C30_Witness ==
    /\ callerPc = "P112"
    /\ live_session # None
    /\ heap[live_session].duration_seconds = MinDuration
    /\ summaries[live_session] = <<>>

\* q[1] + ... + q[n]
RECURSIVE SumOfFirst(_, _)
SumOfFirst(q, n) == IF n = 0 THEN 0 ELSE SumOfFirst(q, n - 1) + q[n]

\* the fraction mean = <<numerator, denominator>> is the arithmetic mean
\* of the non-empty q
IsMeanOf(mean, q) ==
    /\ mean[2] > 0
    /\ mean[1] * Len(q) = mean[2] * SumOfFirst(q, Len(q))

\* the fraction mean is the number v
IsNumber(mean, v) == mean[2] > 0 /\ mean[1] = v * mean[2]

\* C31: the average focus stop_tracking computes is the arithmetic mean of
\* focus_scores when that buffer is non-empty and 85 when it is empty, the
\* average productivity is the mean of productivity_scores or 88, and the
\* summary carries those two.
C31_SummaryAverages ==
    [][/\ (callerPc = "P107" /\ callerPc' = "P108") =>
              LET q == heap[live_session].focus_scores IN
              IF q # <<>> THEN IsMeanOf(avg_focus', q)
              ELSE IsNumber(avg_focus', 85)
       /\ (callerPc = "P108" /\ callerPc' = "P109") =>
              LET q == heap[live_session].productivity_scores IN
              IF q # <<>> THEN IsMeanOf(avg_productivity', q)
              ELSE IsNumber(avg_productivity', 88)
       /\ \A s \in SessionIds :
              summaries'[s] # summaries[s] =>
                  /\ callerPc = "P109"
                  /\ summaries'[s][Len(summaries'[s])].avg_focus = avg_focus
                  /\ summaries'[s][Len(summaries'[s])].avg_productivity =
                         avg_productivity]_vars

\* a summary has been emitted whose averages are over two samples each,
\* the focus and the productivity average different
C31_Witness ==
    \E s \in SessionIds :
        /\ summaries[s] # <<>>
        /\ summaries[s][1].avg_focus[2] >= 2
        /\ summaries[s][1].avg_productivity[2] >= 2
        /\ summaries[s][1].avg_focus # summaries[s][1].avg_productivity

\* thread k completes an iteration in this step: it enters the sleep of
\* line 94
CompletesIteration(k) == pc[k] # "asleep" /\ pc'[k] = "asleep"

\* C32: an iteration of the loop that completes while the engine has
\* stayed in Tracking since the iteration's test of line 71 has appended
\* one element to each of focus_scores, productivity_scores and
\* timestamps: it comes to the sleep from line 89 or from the counters
\* after it, never past the sampling.
C32_IterationAppendsOnce ==
    [][\A k \in SessionIds :
          (CompletesIteration(k) /\ loc[k].in_tracking /\ is_tracking) =>
              /\ pc[k] \in {"L89w", "L93w"}
              /\ pc[k] = "L89w" =>
                     Len(heap'[loc[k].ref].timestamps) =
                         Min(Len(heap[loc[k].ref].timestamps) + 1, BufMaxLen)]_vars

\* this step is the reset of lines 55-56 in a successful start_tracking
CounterReset == callerPc = "S54" /\ callerPc' = "S59"

\* C33: a step that changes typing_events raises it by an integer in
\* [5,15), a step that changes mouse_events raises it by an integer in
\* [2,8), the resets to 0 of start_tracking apart; neither counter
\* decreases otherwise.
C33_CountersOnlyBumped ==
    [][~CounterReset =>
          /\ typing_events' # typing_events =>
                 typing_events' - typing_events \in 5..14
          /\ mouse_events' # mouse_events =>
                 mouse_events' - mouse_events \in 2..7]_vars

\* the sessions start_tracking has created so far
Created == 1..nalloc

\* C34: no step changes the start_time, current_app or current_window of
\* a LiveSessionData that start_tracking has created.
C34_IdentityFieldsFrozen ==
    [][\A s \in Created :
          /\ heap'[s].start_time = heap[s].start_time
          /\ heap'[s].current_app = heap[s].current_app
          /\ heap'[s].current_window = heap[s].current_window]_vars

\* a session created at time 0 has been sampled after the clock advanced,
\* returned to a reader and stopped
C34_Witness ==
    \E s \in Created :
        /\ heap[s].duration_seconds > 0
        /\ heap[s].start_time = 0
        /\ heap[s].current_app = "FocusPulse Elite"
        /\ snapshot = s
        /\ s \in stop_returned

\* C35: a step that changes the duration_seconds or a buffer of a created
\* LiveSessionData is a step of a loop thread; a step of start_tracking,
\* of stop_tracking or of get_live_session_data changes none.
C35_OnlyLoopMutatesSession ==
    [][\A s \in Created :
          /\ heap'[s] # heap[s] => \E k \in SessionIds : LoopStepped(k)
          /\ (callerPc' # callerPc \/ snapshot' # snapshot) =>
                 heap'[s] = heap[s]]_vars

\* stop_tracking is about to release a session that holds samples and
\* that a reader has been given
C35_Witness ==
    /\ callerPc = "P112"
    /\ live_session # None
    /\ snapshot = live_session
    /\ Len(heap[live_session].focus_scores) > 0
    /\ heap[live_session].duration_seconds > 0

\* C39: the activity_events buffer of every LiveSessionData is empty in
\* every reachable state.
C39_ActivityEventsEmpty ==
    \A s \in SessionIds : heap[s].activity_events = <<>>

\* a session has been sampled, the counters bumped, and the session
\* stopped
C39_Witness ==
    \E s \in Created :
        /\ heap[s].timestamps # <<>>
        /\ typing_events > 0
        /\ mouse_events > 0
        /\ s \in stop_returned

\* C36: in every reachable state, for every session, len(timestamps) <=
\* len(productivity_scores) <= len(focus_scores) <= len(timestamps) + 1.
C36_BufferLengthsChained ==
    \A s \in SessionIds :
        /\ Len(heap[s].timestamps) <= Len(heap[s].productivity_scores)
        /\ Len(heap[s].productivity_scores) <= Len(heap[s].focus_scores)
        /\ Len(heap[s].focus_scores) <= Len(heap[s].timestamps) + 1

\* C37: a get_sessions call leaves the table as it was, and a call
\* repeated at the same time on the same table returns the same records in
\* the same order (and its query selects the same rows).
C37_GetSessionsRepeatable ==
    [][(\E d \in DaysArgs : answers'[d].asked) =>
          /\ sessions_table' = sessions_table
          /\ sqlite_sequence' = sqlite_sequence
          /\ \A d \in Asked :
                 /\ answers'[d].returned = answers[d].returned
                 /\ answers'[d].fetched = answers[d].fetched]_vars

\* get_sessions has been called with two values of days on a table with
\* inserted rows, and one query selected some rows but not all
C37_Witness ==
    /\ Len(sessions_table) > Len(DemoSessions)
    /\ Cardinality(Asked) >= 2
    /\ \E d \in Asked :
           /\ answers[d].fetched # <<>>
           /\ Len(answers[d].fetched) < Len(sessions_table)

\* C38: whenever no handler is running (initially, and after each start or
\* stop handler), START is enabled exactly when tracker.is_tracking is
\* false and STOP exactly when it is true; after on_closing the tracker is
\* not tracking and holds no live session.
C38_ButtonsFollowTracking ==
    /\ gui = "ready" =>
           /\ (btn_start_tracking = "normal") <=> ~is_tracking
           /\ (btn_stop_tracking = "normal") <=> is_tracking
    /\ gui = "closed" => (~is_tracking /\ live_session = None)

\* the window was closed while the last session was being tracked, every
\* session having been started and stopped through the handlers
C38_Witness ==
    /\ gui = "closed"
    /\ btn_stop_tracking = "normal"
    /\ log.started = MaxSessions
    /\ log.stopped = MaxSessions

====
